---- MODULE Spec2Model ----
(***************************************************************************)
(* GithubToInternetArchive, main.py: mirror every repository of a GitHub   *)
(* account, pack each mirror into a tarball and upload it to archive.org.  *)
(*                                                                         *)
(* The model follows one process after another (a "run" is one invocation  *)
(* of main()).  The file system under --output-dir and the upstream        *)
(* repositories persist between runs; everything else is per process.      *)
(***************************************************************************)
EXTENDS Integers, Sequences, FiniteSets, TLC

(***************************************************************************)
(* Bounds of the model.                                                    *)
(***************************************************************************)
\* number of repositories the account can own (length of the longest listing)
MaxRepos == 2
\* number of invocations of main() that are followed
MaxRuns == 2
\* number of upstream ref changes (push / ref deletion) that are followed
MaxPushes == 1

(***************************************************************************)
(* Values.                                                                 *)
(***************************************************************************)
\* Python's None / an optional value: <<>> is None, <<x>> is the value x
None == <<>>

Some(x) == <<x>>

\* truthiness of an optional string, as in `repo.description or ""`
Truthy(opt) == opt # None /\ opt[1] # ""

NamePool == <<"alpha", "beta", "gamma", "delta">>

RepoNames == {NamePool[k] : k \in 1..MaxRepos}

RefNames == {"main", "dev"}

\* a ref's tip is 0 for "no such ref", or the commit 1 or 2
HasRef(tip) == tip > 0

User == "acme"

Token == "ghp_xxx123"

Collection == "archive-test"

\* the account's repositories as the forge describes them: alpha has a
\* description, a license and a topic, the others have none
Descriptor(n) ==
    [name |-> n,
     clone_url |-> <<"https://", "github.com/", User, "/", n, ".git">>,
     description |-> IF n = "alpha" THEN Some("widgets") ELSE None,
     license |-> IF n = "alpha" THEN Some([spdx_id |-> "MIT"]) ELSE None,
     topics |-> IF n = "alpha" THEN <<"cli">> ELSE <<>>]

\* repo.clone_url.replace('https://', f"https://{token}@"): every occurrence of
\* the part `old` in the URL is replaced by the parts `new`
RECURSIVE Replace(_, _, _)
Replace(url, old, new) ==
    IF url = <<>> THEN <<>>
    ELSE (IF Head(url) = old THEN new ELSE <<Head(url)>>)
             \o Replace(Tail(url), old, new)

\* the authenticated clone endpoint built in mirror_repo
CloneUrl(repo, token) == Replace(repo.clone_url, "https://", <<"https://", token, "@">>)

\* dest = mirror_base / f"{repo.name}.git"
MirrorName(n) == n \o ".git"

\* tarball = output_dir / f"{name}.tar.gz"
TarballName(name) == name \o ".tar.gz"

Paths == {MirrorName(n) : n \in RepoNames} \cup {TarballName(MirrorName(n)) : n \in RepoNames}

(***************************************************************************)
(* File system entries under the output directory.                         *)
(***************************************************************************)
NoEntry == [type |-> "none"]

\* a bare mirror: its stored remote configuration and its refs
Dir(url, refs) == [type |-> "dir", config_url |-> url, refs |-> refs]

\* an archive: the directory snapshots it holds
File(members) == [type |-> "file", members |-> members]

Exists(f, path) == f[path].type # "none"

\* git clone --mirror <url> <dest>: every upstream ref is copied, and the URL
\* given on the command line is stored as remote.origin.url in dest/config
GitCloneMirror(url, upstream) == Dir(url, upstream)

\* an update that also writes the authenticated URL into the stored one again
GitRemoteUpdate_reauth(dir, upstream) ==
    [dir EXCEPT !.refs = [n \in RefNames |->
                            IF HasRef(upstream[n]) THEN upstream[n] ELSE @[n]],
                !.config_url = <<"https://", Token, "@">> \o Tail(@)]

\* git remote update (no --prune): every upstream ref overwrites the local
\* one; a ref that is gone upstream keeps its last local tip
GitRemoteUpdate(dir, upstream) ==
    [dir EXCEPT !.refs = [n \in RefNames |->
                            IF HasRef(upstream[n]) THEN upstream[n] ELSE @[n]]]

\* tarball.unlink() when tarball.exists()
Unlink(f, path) == IF Exists(f, path) THEN [f EXCEPT ![path] = NoEntry] ELSE f

\* tar czf <tarball> -C <output_dir> <name>: the archive is created anew and
\* holds the directory <name> as it is now
TarCzf(f, tarball, name) == [f EXCEPT ![tarball] = File({f[name]})]

\* make_tarball with an archiver that appends to an archive it finds
make_tarball_append(f, name, ok) ==
    IF ok
    THEN [f EXCEPT ![TarballName(name)] =
            File((IF Exists(f, TarballName(name)) THEN @.members ELSE {}) \cup {f[name]})]
    ELSE f

\* make_tarball on the file system f, for the mirror directory <name>: an old
\* tarball is unlinked, then tar runs; ok says whether tar exited with 0
make_tarball(f, name, ok) ==
    IF ok
    THEN TarCzf(Unlink(f, TarballName(name)), TarballName(name), name)
    ELSE \* a failed tar leaves no archive behind
         Unlink(f, TarballName(name))

\* a removal of everything under the output directory
Rmtree_base(f, path) == [p \in Paths |-> NoEntry]

\* shutil.rmtree(mirror_dir, ignore_errors=True)
Rmtree(f, path) == [f EXCEPT ![path] = NoEntry]

(***************************************************************************)
(* upload_to_ia: the item identifier and the metadata.                     *)
(***************************************************************************)
RETRIES == 3

\* the item named after the account instead of the repository
ItemId_of_account(collection, n) == collection \o "__" \o User

\* item_id = f"{collection}__{repo.name}"
ItemId(collection, n) == collection \o "__" \o n

\* the license test without the sentinel
LicenseIncluded_no_sentinel(repo) == repo.license # None

\* if repo.license and repo.license.spdx_id != "NOASSERTION"
LicenseIncluded(repo) == repo.license # None /\ repo.license[1].spdx_id # "NOASSERTION"

\* f"https://spdx.org/licenses/{repo.license.spdx_id}.html"
LicenseUrl(license) == "https://spdx.org/licenses/" \o license.spdx_id \o ".html"

\* the topics always sent
SubjectIncluded_always(topics) == TRUE

\* if topics:
SubjectIncluded(topics) == topics # <<>>

\* the metadata dictionary: a function from the keys present to their values
\* the description formatted into the metadata without the `or ""` fallback
Metadata_str_description(repo, collection, user) ==
    LET base == ("collection" :> collection)
                @@ ("title" :> user \o "/" \o repo.name \o " mirror")
                @@ ("description" :> IF repo.description # None THEN repo.description[1] ELSE "None")
                @@ ("mediatype" :> "data")
        lic == IF LicenseIncluded(repo)
               THEN base @@ ("licenseurl" :> LicenseUrl(repo.license[1]))
               ELSE base
    IN  IF SubjectIncluded(repo.topics) THEN lic @@ ("subject" :> repo.topics) ELSE lic

Metadata(repo, collection, user) ==
    LET base == ("collection" :> collection)
                @@ ("title" :> user \o "/" \o repo.name \o " mirror")
                @@ ("description" :> IF Truthy(repo.description) THEN repo.description[1] ELSE "")
                @@ ("mediatype" :> "data")
        lic == IF LicenseIncluded(repo)
               THEN base @@ ("licenseurl" :> LicenseUrl(repo.license[1]))
               ELSE base
    IN  IF SubjectIncluded(repo.topics) THEN lic @@ ("subject" :> repo.topics) ELSE lic

(***************************************************************************)
(* State.                                                                  *)
(***************************************************************************)
VARIABLES
    pc,          \* where the process is: "idle" (no process), "mkdir",
                 \* "fetch", "mirror", "tar", "upload", "cleanup", "done"
    exitCode,    \* the process's exit status, once pc = "done"
    args,        \* the parsed command line of this run
    repos,       \* the listing fetch_repos returned
    idx,         \* position of the for loop in repos
    base_exists, \* whether the output directory exists
    fs,          \* the entries of the output directory
    remote,      \* the refs of every upstream repository
    out,         \* the lines this process printed
    calls,       \* the ia.upload calls this process made
    trace,       \* the pipeline operations this process performed, in order
    runs,        \* processes started so far
    pushes,      \* upstream changes so far
    account      \* the names of the account's repositories, in listing order

vars == <<pc, exitCode, args, repos, idx, base_exists, fs, remote, out, calls, trace, runs, pushes, account>>

\* sequences of distinct repository names, as org.get_repos() may list them
Listings ==
    {l \in UNION {[1..k -> RepoNames] : k \in 0..MaxRepos} :
        \A a, b \in DOMAIN l : a # b => l[a] # l[b]}

\* args = parser.parse_args()
Args(keep, collection, user) ==
    [keep_mirror |-> keep, github_user |-> user, github_token |-> Token,
     ia_collection |-> collection]

\* a printed line: the stream, what it says, and the repository it names
Line(stream, kind, about) == [stream |-> stream, kind |-> kind, about |-> about]

\* a pipeline operation on repository n and whether it succeeded
Op(op, n, ok) == [op |-> op, repo |-> n, ok |-> ok]

Init ==
    /\ pc = "idle"
    /\ exitCode = 0
    /\ args = Args(FALSE, Collection, User)
    /\ repos = <<>>
    /\ idx = 1
    /\ base_exists = FALSE
    /\ fs = [p \in Paths |-> NoEntry]
    /\ remote = [n \in RepoNames |-> [r \in RefNames |-> 1]]
    /\ out = <<>>
    /\ calls = <<>>
    /\ trace = <<>>
    /\ runs = 0
    /\ pushes = 0
    /\ account \in Listings

\* a new process is started
Start ==
    /\ pc = "idle"
    /\ runs < MaxRuns
    /\ runs' = runs + 1
    /\ \E keep \in BOOLEAN : args' = Args(keep, Collection, User)
    /\ pc' = "mkdir"
    /\ UNCHANGED <<exitCode, repos, idx, out, calls, trace>>
    /\ UNCHANGED <<base_exists, fs, remote, pushes, account>>

\* the process is gone: only the file system and the upstream remain
Exit ==
    /\ pc = "done"
    /\ pc' = "idle"
    /\ exitCode' = 0
    /\ args' = Args(FALSE, Collection, User)
    /\ repos' = <<>>
    /\ idx' = 1
    /\ out' = <<>>
    /\ calls' = <<>>
    /\ trace' = <<>>
    /\ UNCHANGED <<base_exists, fs, remote, runs, pushes, account>>

\* an exception nobody catches: the traceback is printed and the status is 1
Uncaught(o, about) ==
    /\ out' = Append(o, Line("stderr", "traceback", about))
    /\ pc' = "done"
    /\ exitCode' = 1

\* mkdir whose failure is swallowed
Mkdir_swallowed ==
    /\ pc = "mkdir"
    /\ pc' = "fetch"
    /\ \E made \in {TRUE, base_exists} : base_exists' = made
    /\ UNCHANGED <<exitCode, args, repos, idx, fs, remote, out, calls, trace, runs, pushes, account>>

\* base.mkdir(parents=True, exist_ok=True)
Mkdir ==
    /\ pc = "mkdir"
    /\ \/ /\ base_exists' = TRUE
          /\ pc' = "fetch"
          /\ UNCHANGED <<out, exitCode>>
       \/ /\ ~base_exists
          /\ UNCHANGED base_exists
          /\ Uncaught(out, "mkdir")
    /\ UNCHANGED <<args, repos, idx, fs, remote, calls, trace, runs, pushes, account>>

\* the for loop moves on: the next repository, or "All done." and status 0
NextRepo(o) ==
    /\ idx' = idx + 1
    /\ IF idx < Len(repos)
       THEN /\ pc' = "mirror"
            /\ out' = o
            /\ UNCHANGED exitCode
       ELSE /\ pc' = "done"
            /\ out' = Append(o, Line("stdout", "all_done", ""))
            /\ exitCode' = 0

\* die(msg): the message goes to stderr and sys.exit(1) raises SystemExit
Die(o, about) == Append(o, Line("stderr", "die", about))

\* a handler that catches nothing
ExceptException_none(kind) == FALSE

\* `except Exception as e`: SystemExit derives from BaseException, not from
\* Exception, so the handler of the loop does not catch it
ExceptException(kind) == kind = "Exception"

\* a handler that starts the failed repository over
Raise_retry(o, kind, n) ==
    /\ pc' = "mirror"
    /\ out' = o
    /\ UNCHANGED <<idx, exitCode>>

\* something raised inside the try block of the loop, for repository n
Raise(o, kind, n) ==
    IF ExceptException(kind)
    THEN NextRepo(Append(o, Line("stderr", "error", n)))
    ELSE /\ pc' = "done"
         /\ exitCode' = 1
         /\ out' = o
         /\ UNCHANGED idx

\* a run(cmd) that echoes the command and ignores its exit status
RunFailed_ignored(o, about, n) ==
    /\ pc' = IF pc = "mirror" THEN "tar" ELSE "upload"
    /\ out' = Append(o, Line("stdout", "cmd", about))
    /\ UNCHANGED <<idx, exitCode>>

\* run(cmd) whose command exits non-zero, inside the try block: the command
\* line is echoed, then die.  about is the repository the command line names
RunFailed(o, about, n) == Raise(Die(Append(o, Line("stdout", "cmd", about)), about), "SystemExit", n)

\* fetch_repos and the "Found ... repos" line
FetchRepos ==
    /\ pc = "fetch"
    /\ \/ /\ out' = Die(out, "")
          /\ pc' = "done"
          /\ exitCode' = 1
          /\ UNCHANGED repos
       \/ /\ Uncaught(out, "get_repos")
          /\ UNCHANGED repos
       \/ /\ repos' = [k \in 1..Len(account) |-> Descriptor(account[k])]
          /\ IF account = <<>>
             THEN /\ pc' = "done"
                  /\ exitCode' = 0
                  /\ out' = out \o <<Line("stdout", "found", ""), Line("stdout", "all_done", "")>>
             ELSE /\ pc' = "mirror"
                  /\ out' = Append(out, Line("stdout", "found", ""))
                  /\ UNCHANGED exitCode
    /\ UNCHANGED <<args, idx, base_exists, fs, remote, calls, trace, runs, pushes, account>>

\* mirror_repo(repo, base, args.github_token)
MirrorRepo ==
    /\ pc = "mirror"
    /\ LET repo == repos[idx]
           dest == MirrorName(repo.name)
           clone_url == CloneUrl(repo, args.github_token)
       IN  \E rc \in {0, 1} :
             /\ trace' = Append(trace, Op("mirror", repo.name, rc = 0))
             /\ IF rc = 0
                THEN /\ fs' = [fs EXCEPT ![dest] =
                                  IF Exists(fs, dest)
                                  THEN GitRemoteUpdate(@, remote[repo.name])
                                  ELSE GitCloneMirror(clone_url, remote[repo.name])]
                     /\ pc' = "tar"
                     /\ out' = Append(out, Line("stdout", "cmd", repo.name))
                     /\ UNCHANGED <<exitCode, idx>>
                ELSE /\ UNCHANGED fs
                     \* "git clone --mirror <url> <dest>" names the repository,
                     \* "git remote update" does not
                     /\ RunFailed(out, IF Exists(fs, dest) THEN "" ELSE repo.name, repo.name)
    /\ UNCHANGED <<args, repos, base_exists, remote, calls, runs, pushes, account>>

\* what make_tarball has printed when it calls run: "Removing old tarball"
\* if there was one, and "Creating tarball"
Printed(f, name) ==
    out \o (IF Exists(f, TarballName(name))
            THEN <<Line("stdout", "removing_old", TarballName(name))>> ELSE <<>>)
        \o <<Line("stdout", "creating", TarballName(name))>>

\* tarball = make_tarball(mirror_dir, base)
MakeTarball ==
    /\ pc = "tar"
    /\ LET repo == repos[idx]
           name == MirrorName(repo.name)
       IN  \E rc \in {0, 1} :
             /\ trace' = Append(trace, Op("package", repo.name, rc = 0))
             /\ fs' = make_tarball(fs, name, rc = 0)
             /\ IF rc = 0
                THEN /\ pc' = "upload"
                     /\ out' = Printed(fs, name) \o <<Line("stdout", "cmd", repo.name)>>
                     /\ UNCHANGED <<exitCode, idx>>
                ELSE RunFailed(Printed(fs, name), repo.name, repo.name)
    /\ UNCHANGED <<args, repos, base_exists, remote, calls, runs, pushes, account>>

\* upload_to_ia(tarball, repo, args.ia_collection, args.github_user)
UploadToIa ==
    /\ pc = "upload"
    /\ LET repo == repos[idx]
           tarball == TarballName(MirrorName(repo.name))
           call == [item_id |-> ItemId(args.ia_collection, repo.name),
                    files |-> <<tarball>>,
                    content |-> fs[tarball],
                    metadata |-> Metadata(repo, args.ia_collection, args.github_user),
                    retries |-> RETRIES]
       IN  \E outcome \in {"uploaded", "get_topics raised", "upload raised"} :
             /\ trace' = Append(trace, Op("upload", repo.name, outcome = "uploaded"))
             /\ calls' = IF outcome = "get_topics raised" THEN calls ELSE Append(calls, call)
             /\ IF outcome = "uploaded"
                THEN /\ pc' = "cleanup"
                     /\ out' = Append(out, Line("stdout", "uploaded", repo.name))
                     /\ UNCHANGED <<exitCode, idx>>
                ELSE Raise(out, "Exception", repo.name)
    /\ UNCHANGED <<args, repos, base_exists, fs, remote, runs, pushes, account>>

\* the mirror removed whatever the flag
ShouldCleanup_always(a) == TRUE

\* if not args.keep_mirror
ShouldCleanup(a) == ~a.keep_mirror

\* the end of the try block: the optional removal of the mirror
Cleanup ==
    /\ pc = "cleanup"
    /\ LET repo == repos[idx]
           mirror_dir == MirrorName(repo.name)
       IN  IF ShouldCleanup(args)
           THEN \E removed \in BOOLEAN :
                  /\ fs' = IF removed THEN Rmtree(fs, mirror_dir) ELSE fs
                  /\ trace' = Append(trace, Op("cleanup", repo.name, removed))
                  /\ NextRepo(Append(out, Line("stdout", "cleaning", repo.name)))
           ELSE /\ UNCHANGED fs
                /\ trace' = Append(trace, Op("keep", repo.name, TRUE))
                /\ NextRepo(out)
    /\ UNCHANGED <<args, repos, base_exists, remote, calls, runs, pushes, account>>

\* the world outside: somebody pushes a commit to the main branch of an
\* upstream repository, or deletes its dev branch.  Every pipeline step is atomic here and only MirrorRepo reads
\* the upstream, so a change during a run is the same change before or after
\* that run: changes are taken between two processes only.
UpstreamChange ==
    /\ pc = "idle"
    /\ pushes < MaxPushes
    /\ pushes' = pushes + 1
    /\ \E n \in {account[k] : k \in DOMAIN account} :
          \/ /\ remote[n]["main"] = 1
             /\ remote' = [remote EXCEPT ![n]["main"] = 2]
          \/ /\ HasRef(remote[n]["dev"])
             /\ remote' = [remote EXCEPT ![n]["dev"] = 0]
    /\ UNCHANGED <<pc, exitCode, args, repos, idx, base_exists, fs, out, calls, trace, runs, account>>

Next ==
    \/ Start
    \/ Exit
    \/ Mkdir
    \/ FetchRepos
    \/ MirrorRepo
    \/ MakeTarball
    \/ UploadToIa
    \/ Cleanup
    \/ UpstreamChange

Spec == Init /\ [][Next]_vars

(***************************************************************************)
(* upload_to_ia on its own: the process is about to upload one repository  *)
(* whose descriptor, collection and account are drawn from the sets below. *)
(***************************************************************************)
Collections == {"archive-test", "bar"}

Users == {"acme", "bocaletto-luca"}

Descriptors ==
    {[name |-> n,
      clone_url |-> <<"https://", "github.com/", "acme", "/", n, ".git">>,
      description |-> d, license |-> l, topics |-> t] :
        n \in RepoNames,
        d \in {None, Some(""), Some("widgets")},
        l \in {None, Some([spdx_id |-> "NOASSERTION"]), Some([spdx_id |-> "MIT"]),
               Some([spdx_id |-> "GPL-3.0"])},
        t \in {<<>>, <<"cli">>, <<"cli", "tool">>}}

InitMeta ==
    /\ pc = "upload"
    /\ exitCode = 0
    /\ \E keep \in BOOLEAN, c \in Collections, u \in Users : args = Args(keep, c, u)
    /\ \E d \in Descriptors :
          /\ repos = <<d>>
          /\ account = <<d.name>>
          /\ LET mirror == GitCloneMirror(CloneUrl(d, Token), [r \in RefNames |-> 1])
             IN  fs = [p \in Paths |->
                         IF p = MirrorName(d.name) THEN mirror
                         ELSE IF p = TarballName(MirrorName(d.name)) THEN File({mirror})
                         ELSE NoEntry]
          /\ trace = <<Op("mirror", d.name, TRUE), Op("package", d.name, TRUE)>>
          /\ out = <<Line("stdout", "found", ""), Line("stdout", "cmd", d.name),
                     Line("stdout", "creating", TarballName(MirrorName(d.name))),
                     Line("stdout", "cmd", d.name)>>
    /\ idx = 1
    /\ base_exists = TRUE
    /\ remote = [n \in RepoNames |-> [r \in RefNames |-> 1]]
    /\ calls = <<>>
    /\ runs = 1
    /\ pushes = 0

NextMeta ==
    \/ UploadToIa
    \/ Cleanup

SpecMeta == InitMeta /\ [][NextMeta]_vars

(***************************************************************************)
(* What a run has done, read from its trace and its output.                *)
(***************************************************************************)
Listed == {repos[k].name : k \in DOMAIN repos}

Did(op, n) == \E k \in DOMAIN trace : trace[k].op = op /\ trace[k].repo = n

DidOk(op, n) == \E k \in DOMAIN trace : trace[k] = Op(op, n, TRUE)

DidFail(op, n) == \E k \in DOMAIN trace : trace[k] = Op(op, n, FALSE)

\* the stages that failed in this run
FailedStages ==
    {trace[k] : k \in {j \in DOMAIN trace :
                          trace[j].op \in {"mirror", "package", "upload"} /\ ~trace[j].ok}}

\* discovery succeeded: the "Found ... repos" line was printed
Found == \E k \in DOMAIN out : out[k].kind = "found"

\* an error line on stderr names repository n
Reported(n) ==
    \E k \in DOMAIN out :
        out[k].stream = "stderr" /\ out[k].kind \in {"error", "die"} /\ out[k].about = n

\* the handler's "Error processing '<n>'" line
ErrorLine(n) == \E k \in DOMAIN out : out[k] = Line("stderr", "error", n)

\* the success line of repository n
Succeeded(n) == \E k \in DOMAIN out : out[k] = Line("stdout", "uploaded", n)

HasToken(url) == \E k \in DOMAIN url : url[k] = Token

(***************************************************************************)
(* C1.  Mirror-failure isolation: when exactly one repository's clone or   *)
(* update fails and nothing else does, the finished run has taken every    *)
(* other listed repository through mirror, package and upload, reports a   *)
(* failure for that repository only and a success for each of the others.  *)
(***************************************************************************)
C1_MirrorFailureIsolation ==
    \A f \in Listed :
        (pc = "done" /\ FailedStages = {Op("mirror", f, FALSE)}) =>
            /\ \A n \in Listed \ {f} :
                  DidOk("mirror", n) /\ DidOk("package", n) /\ DidOk("upload", n)
            /\ {n \in Listed : Reported(n)} = {f}
            /\ {n \in Listed : Succeeded(n)} = Listed \ {f}

(***************************************************************************)
(* C2.  Packaging-failure isolation: when the archiver fails for a         *)
(* repository, the failure is reported for that repository, no upload is   *)
(* attempted for it, and by the end of the run every repository listed     *)
(* after it has been processed.                                            *)
(***************************************************************************)
C2_PackagingFailureIsolation ==
    \A k \in DOMAIN repos :
        DidFail("package", repos[k].name) =>
            /\ Reported(repos[k].name)
            /\ ~Did("upload", repos[k].name)
            /\ pc = "done" => \A j \in (k + 1)..Len(repos) : Did("mirror", repos[j].name)

(***************************************************************************)
(* C3.  Upload-failure isolation: when the upload of a repository raises,  *)
(* an error line naming that repository is printed, the loop has moved     *)
(* past it, and the run does not end because of it: a run that ends with a *)
(* repository after it never started ends so only because a later          *)
(* repository's mirror or package command failed.                          *)
(***************************************************************************)
C3_UploadFailureIsolation ==
    \A k \in DOMAIN repos :
        DidFail("upload", repos[k].name) =>
            /\ ErrorLine(repos[k].name)
            /\ idx > k
            /\ \A j \in (k + 1)..Len(repos) :
                  (pc = "done" /\ ~Did("mirror", repos[j].name)) =>
                      \E m \in (k + 1)..(j - 1) :
                          DidFail("mirror", repos[m].name) \/ DidFail("package", repos[m].name)

\* an upload failed, and the repository after it was then uploaded
C3_Witness ==
    /\ pc = "done"
    /\ exitCode = 0
    /\ Len(repos) = 2
    /\ DidFail("upload", repos[1].name)
    /\ ErrorLine(repos[1].name)
    /\ DidOk("upload", repos[2].name)

(***************************************************************************)
(* C4.  Exit-code policy: a finished run whose discovery and output        *)
(* directory creation succeeded exits with status zero, whatever           *)
(* per-repository stage failed.                                            *)
(***************************************************************************)
C4_ExitCodePolicy == (pc = "done" /\ base_exists /\ Found) => exitCode = 0

(***************************************************************************)
(* C5.  Credential confinement: the access token is in no mirror           *)
(* directory's stored remote configuration, in no archive on disk and in   *)
(* no archive handed to the upload.                                        *)
(***************************************************************************)
C5_CredentialConfinement ==
    /\ \A p \in Paths :
          /\ fs[p].type = "dir" => ~HasToken(fs[p].config_url)
          /\ fs[p].type = "file" => \A m \in fs[p].members : ~HasToken(m.config_url)
    /\ \A k \in DOMAIN calls :
          calls[k].content.type = "file" =>
              \A m \in calls[k].content.members : ~HasToken(m.config_url)

(***************************************************************************)
(* C6.  Fatal errors precede all repository work: no repository operation  *)
(* happens before the output directory exists and the listing was fetched; *)
(* a run that ends without a listing (mkdir or discovery failed) ends with  *)
(* a non-zero status and has performed no mirror, package, upload or       *)
(* cleanup, and up to the listing the output directory's entries are       *)
(* untouched.                                                              *)
(***************************************************************************)
C6_FatalErrorsFirst ==
    /\ [](trace # <<>> \/ calls # <<>> => base_exists /\ Found)
    /\ []((pc = "done" /\ ~Found) => (exitCode = 1 /\ trace = <<>> /\ calls = <<>>))
    /\ []((pc = "fetch") => base_exists)
    /\ [][(pc \in {"mkdir", "fetch"}) => (fs' = fs)]_vars

\* discovery fails in a second run, over the mirrors and tarballs of the first
C6_Witness ==
    /\ pc = "done"
    /\ ~Found
    /\ base_exists
    /\ exitCode = 1
    /\ trace = <<>>
    /\ \E p \in Paths : Exists(fs, p)

(***************************************************************************)
(* C7 as stated.  Conditional cleanup: with the retain flag no mirror is   *)
(* removed, and without it the mirror of every successfully uploaded       *)
(* repository is gone once the pipeline has moved past that repository.    *)
(***************************************************************************)
C7_CleanupAlwaysRemoves ==
    /\ args.keep_mirror => \A k \in DOMAIN trace : trace[k].op # "cleanup"
    /\ ~args.keep_mirror =>
          \A k \in DOMAIN trace :
              (trace[k].op = "upload" /\ trace[k].ok /\ k < Len(trace)) =>
                  ~Exists(fs, MirrorName(trace[k].repo))

(***************************************************************************)
(* C7 as amended.  A mirror directory disappears only in the cleanup step  *)
(* of the repository it belongs to, right after that repository's          *)
(* successful upload and only when the run does not retain mirrors; with   *)
(* the retain flag no removal is attempted; without it the removal of the  *)
(* mirror of every successfully uploaded repository is attempted before    *)
(* the next repository starts, and the mirror is gone unless that          *)
(* best-effort removal itself failed.                                      *)
(***************************************************************************)
C7_ConditionalCleanup ==
    /\ [][\A n \in RepoNames :
             (Exists(fs, MirrorName(n)) /\ ~Exists(fs', MirrorName(n))) =>
                 /\ pc = "cleanup"
                 /\ ~args.keep_mirror
                 /\ repos[idx].name = n
                 /\ trace[Len(trace)] = Op("upload", n, TRUE)]_vars
    /\ [](args.keep_mirror => \A k \in DOMAIN trace : trace[k].op # "cleanup")
    /\ [](~args.keep_mirror =>
            \A k \in DOMAIN trace :
                (trace[k].op = "upload" /\ trace[k].ok /\ k < Len(trace)) =>
                    /\ trace[k + 1].op = "cleanup"
                    /\ trace[k + 1].repo = trace[k].repo
                    /\ trace[k + 1].ok => ~Exists(fs, MirrorName(trace[k].repo)))

\* the first repository was uploaded and its mirror removed, its tarball
\* stays, and the second repository is about to be mirrored
C7_Witness ==
    /\ pc = "mirror"
    /\ idx = 2
    /\ ~args.keep_mirror
    /\ trace = <<Op("mirror", repos[1].name, TRUE), Op("package", repos[1].name, TRUE),
                 Op("upload", repos[1].name, TRUE), Op("cleanup", repos[1].name, TRUE)>>
    /\ ~Exists(fs, MirrorName(repos[1].name))

(***************************************************************************)
(* C8.  Artifact replacement: every archive in the output directory is the *)
(* tarball of exactly one repository and holds exactly one snapshot of a   *)
(* mirror, never a merge; right after packaging, the repository's tarball  *)
(* holds the mirror directory as it is now and nothing else, whatever an   *)
(* earlier run left under that name.                                       *)
(***************************************************************************)
C8_ArtifactReplacement ==
    /\ \A p \in Paths :
          fs[p].type = "file" =>
              /\ Cardinality({n \in RepoNames : p = TarballName(MirrorName(n))}) = 1
              /\ Cardinality(fs[p].members) = 1
    /\ \A n \in RepoNames :
          Cardinality({p \in Paths : fs[p].type = "file"
                                     /\ p = TarballName(MirrorName(n))}) <= 1
    /\ pc = "upload" =>
          LET name == MirrorName(repos[idx].name)
          IN  fs[TarballName(name)] = File({fs[name]})

\* a tarball left by an earlier run was replaced by one of the updated mirror
C8_Witness ==
    /\ pc = "upload"
    /\ runs = 2
    /\ LET name == MirrorName(repos[idx].name)
       IN  /\ \E k \in DOMAIN out : out[k] = Line("stdout", "removing_old", TarballName(name))
           /\ fs[name].refs["main"] = 2
           /\ fs[TarballName(name)] = File({fs[name]})

\* the descriptor an ia.upload call was made for
DescriptorOf(call) ==
    CHOOSE d \in {repos[k] : k \in DOMAIN repos} :
        call.item_id = ItemId(args.ia_collection, d.name)

\* the license-reference URL of the identifiers the descriptors use
ExpectedLicenseUrl ==
    ("MIT" :> "https://spdx.org/licenses/MIT.html")
    @@ ("GPL-3.0" :> "https://spdx.org/licenses/GPL-3.0.html")

(***************************************************************************)
(* C9.  License metadata: the metadata of every upload holds the key       *)
(* licenseurl if and only if the descriptor has a license whose identifier *)
(* is not NOASSERTION, and then its value is the spdx.org reference URL of  *)
(* that identifier.                                                        *)
(***************************************************************************)
C9_LicenseMetadata ==
    \A k \in DOMAIN calls :
        LET d == DescriptorOf(calls[k])
            md == calls[k].metadata
            known == d.license # None /\ d.license[1].spdx_id # "NOASSERTION"
        IN  /\ "licenseurl" \in DOMAIN md <=> known
            /\ known => md["licenseurl"] = ExpectedLicenseUrl[d.license[1].spdx_id]

\* uploads with a known license, with the sentinel, and with no license
C9_WitnessKnown ==
    \E k \in DOMAIN calls :
        /\ DescriptorOf(calls[k]).license = Some([spdx_id |-> "GPL-3.0"])
        /\ calls[k].metadata["licenseurl"] = "https://spdx.org/licenses/GPL-3.0.html"

C9_Witness ==
    \E k \in DOMAIN calls :
        /\ DescriptorOf(calls[k]).license = Some([spdx_id |-> "NOASSERTION"])
        /\ "licenseurl" \notin DOMAIN calls[k].metadata
        /\ pc = "cleanup"

(***************************************************************************)
(* C10.  Subject metadata: the metadata of every upload holds the key      *)
(* subject if and only if the descriptor's topics are not empty, and then  *)
(* subject is the list of topics itself.                                   *)
(***************************************************************************)
C10_SubjectMetadata ==
    \A k \in DOMAIN calls :
        LET d == DescriptorOf(calls[k])
            md == calls[k].metadata
        IN  /\ "subject" \in DOMAIN md <=> d.topics # <<>>
            /\ d.topics # <<>> => md["subject"] = d.topics

\* an upload with two topics carried them both, in order
C10_Witness ==
    \E k \in DOMAIN calls :
        /\ DescriptorOf(calls[k]).topics = <<"cli", "tool">>
        /\ calls[k].metadata["subject"] = <<"cli", "tool">>
        /\ pc = "cleanup"

\* the identifiers written out for the collections and names of the model
ExpectedItemId(c, n) ==
    CASE c = "bar" /\ n = "alpha" -> "bar__alpha"
      [] c = "bar" /\ n = "beta" -> "bar__beta"
      [] c = "bar" /\ n = "gamma" -> "bar__gamma"
      [] c = "bar" /\ n = "delta" -> "bar__delta"
      [] c = "archive-test" /\ n = "alpha" -> "archive-test__alpha"
      [] c = "archive-test" /\ n = "beta" -> "archive-test__beta"
      [] c = "archive-test" /\ n = "gamma" -> "archive-test__gamma"
      [] c = "archive-test" /\ n = "delta" -> "archive-test__delta"

(***************************************************************************)
(* C11.  Deterministic item naming: every ia.upload call sends the tarball *)
(* of one listed repository r to the item <collection>__<r>, an identifier *)
(* that depends on the collection and the repository name only, and two    *)
(* different repository names never share an identifier under one          *)
(* collection.                                                             *)
(***************************************************************************)
C11_ItemNaming ==
    /\ \A k \in DOMAIN calls :
          \E n \in Listed :
              /\ calls[k].files = <<TarballName(MirrorName(n))>>
              /\ calls[k].item_id = ExpectedItemId(args.ia_collection, n)
    /\ \A c \in Collections : \A n1, n2 \in RepoNames :
          n1 # n2 => ItemId(c, n1) # ItemId(c, n2)

\* repository alpha was uploaded under collection bar as bar__alpha
C11_Witness ==
    /\ pc = "cleanup"
    /\ args.ia_collection = "bar"
    /\ calls # <<>>
    /\ calls[1].item_id = "bar__alpha"
    /\ calls[1].files = <<"alpha.git.tar.gz">>

\* the titles written out for the accounts and names of the model
ExpectedTitle(u, n) ==
    CASE u = "acme" /\ n = "alpha" -> "acme/alpha mirror"
      [] u = "acme" /\ n = "beta" -> "acme/beta mirror"
      [] u = "acme" /\ n = "gamma" -> "acme/gamma mirror"
      [] u = "acme" /\ n = "delta" -> "acme/delta mirror"
      [] u = "bocaletto-luca" /\ n = "alpha" -> "bocaletto-luca/alpha mirror"
      [] u = "bocaletto-luca" /\ n = "beta" -> "bocaletto-luca/beta mirror"
      [] u = "bocaletto-luca" /\ n = "gamma" -> "bocaletto-luca/gamma mirror"
      [] u = "bocaletto-luca" /\ n = "delta" -> "bocaletto-luca/delta mirror"

(***************************************************************************)
(* C12.  Required metadata: the metadata of every upload holds collection  *)
(* = the collection argument, title = "<account>/<repository name> mirror",*)
(* mediatype = "data", and description = the descriptor's description when *)
(* it has one and the empty string otherwise.                              *)
(***************************************************************************)
C12_RequiredMetadata ==
    \A k \in DOMAIN calls :
        LET d == DescriptorOf(calls[k])
            md == calls[k].metadata
        IN  /\ {"collection", "title", "description", "mediatype"} \subseteq DOMAIN md
            /\ md["collection"] = args.ia_collection
            /\ md["title"] = ExpectedTitle(args.github_user, d.name)
            /\ md["mediatype"] = "data"
            /\ md["description"] = IF d.description = None THEN "" ELSE d.description[1]

\* account acme, repository beta without a description, uploaded
C12_Witness ==
    /\ pc = "cleanup"
    /\ args.github_user = "acme"
    /\ repos[1].name = "beta"
    /\ repos[1].description = None
    /\ calls # <<>>
    /\ calls[1].metadata["title"] = "acme/beta mirror"
    /\ calls[1].metadata["description"] = ""
    /\ calls[1].metadata["mediatype"] = "data"

\* the repositories of the listing that did not end in success
NotSucceeded == {n \in Listed : ~Succeeded(n)}

(***************************************************************************)
(* C13.  Observable outcomes: when a run that listed the repositories has  *)
(* ended, every listed repository that did not end in success has an error *)
(* line on stderr naming it, and the last line of the output is a summary  *)
(* of how many repositories succeeded and how many failed.                 *)
(***************************************************************************)
C13_ObservableOutcomes ==
    (pc = "done" /\ Found) =>
        /\ \A n \in NotSucceeded : Reported(n)
        /\ out[Len(out)].kind = "summary"

(***************************************************************************)
(* C14.  Mirror tracks remote exactly: right after a successful mirror     *)
(* step (a clone when there was no mirror directory, an update when there  *)
(* was one) the refs and tips of the local mirror are those of the remote, *)
(* a ref deleted upstream being gone locally too.                          *)
(***************************************************************************)
C14_MirrorTracksRemote ==
    pc = "tar" =>
        LET n == repos[idx].name
        IN  /\ Exists(fs, MirrorName(n))
            /\ fs[MirrorName(n)].refs = remote[n]

\* the directories under the output directory that mirror repository n
MirrorDirs(n) ==
    {p \in Paths : fs[p].type = "dir" /\ fs[p].config_url = CloneUrl(Descriptor(n), Token)}

(***************************************************************************)
(* C15.  Mirror idempotence: a mirror step that follows a successful       *)
(* mirror step of the same repository with no upstream change in between   *)
(* leaves the content of the mirror directory as the first one left it,    *)
(* and there is never more than one mirror directory per repository name.  *)
(* The second conjunct applies the update to the state right after every   *)
(* successful mirror step; the third is about the steps of a later run     *)
(* when nothing has changed upstream.                                      *)
(***************************************************************************)
C15_MirrorIdempotence ==
    /\ [](\A n \in RepoNames : Cardinality(MirrorDirs(n)) <= 1)
    /\ [](pc = "tar" =>
            LET n == repos[idx].name
            IN  GitRemoteUpdate(fs[MirrorName(n)], remote[n]) = fs[MirrorName(n)])
    /\ [][(pc = "mirror" /\ pushes = 0 /\ Exists(fs, MirrorName(repos[idx].name)))
            => (fs' = fs)]_vars

\* a second run is about to mirror alpha again: its mirror directory was left
\* by the first run and nothing has changed upstream
C15_Witness ==
    /\ pc = "mirror"
    /\ runs = 2
    /\ pushes = 0
    /\ repos[idx].name = "alpha"
    /\ Exists(fs, "alpha.git")
    /\ fs["alpha.git"].refs = remote["alpha"]

\* the stage that comes right before op in the pipeline of one repository
Before(op) ==
    CASE op = "package" -> "mirror"
      [] op = "upload" -> "package"
      [] op \in {"cleanup", "keep"} -> "upload"

(***************************************************************************)
(* C16.  Stage ordering: in the operations of a run, a repository starts   *)
(* with its mirror stage, and its packaging, its upload and its cleanup    *)
(* (or the decision to keep the mirror) each come right after the stage    *)
(* before them has succeeded for that repository; once a stage of a        *)
(* repository has failed, no later operation of the run is on that         *)
(* repository.                                                             *)
(***************************************************************************)
C16_StageOrdering ==
    /\ \A k \in DOMAIN trace :
          IF trace[k].op = "mirror"
          THEN \A j \in 1..(k - 1) : trace[j].repo # trace[k].repo
          ELSE k > 1 /\ trace[k - 1] = Op(Before(trace[k].op), trace[k].repo, TRUE)
    /\ \A k \in DOMAIN trace :
          (trace[k].op \in {"mirror", "package", "upload"} /\ ~trace[k].ok)
              => \A j \in (k + 1)..Len(trace) : trace[j].repo # trace[k].repo
    /\ pc = "tar" => trace[Len(trace)] = Op("mirror", repos[idx].name, TRUE)
    /\ pc = "upload" => trace[Len(trace)] = Op("package", repos[idx].name, TRUE)
    /\ pc = "cleanup" => trace[Len(trace)] = Op("upload", repos[idx].name, TRUE)

\* alpha went through every stage, then beta's upload failed and the run ended
C16_Witness ==
    /\ pc = "done"
    /\ Len(trace) = 7
    /\ trace[4].repo = "alpha" /\ trace[4].op \in {"cleanup", "keep"}
    /\ trace[7] = Op("upload", "beta", FALSE)

\* the repositories whose mirror stage was started, in the order of the starts
Started == [k \in 1..Cardinality({j \in DOMAIN trace : trace[j].op = "mirror"}) |->
               trace[CHOOSE j \in DOMAIN trace :
                         /\ trace[j].op = "mirror"
                         /\ Cardinality({i \in 1..j : trace[i].op = "mirror"}) = k].repo]

(***************************************************************************)
(* C17.  Sequential single pass: the repositories are started in listing   *)
(* order; the operations of one repository are contiguous in the run, so   *)
(* no repository is started while another has a stage still to come; no    *)
(* stage of a repository is invoked twice in a run; and the only retrying  *)
(* is inside ia.upload, which is called at most once per repository with   *)
(* retries = 3.                                                            *)
(***************************************************************************)
C17_SequentialSinglePass ==
    /\ Len(Started) <= Len(repos)
    /\ \A k \in DOMAIN Started : Started[k] = repos[k].name
    /\ \A i, j, k \in DOMAIN trace :
          (i < j /\ j < k /\ trace[i].repo = trace[k].repo) => trace[j].repo = trace[i].repo
    /\ \A i, j \in DOMAIN trace :
          (trace[i].op = trace[j].op /\ trace[i].repo = trace[j].repo) => i = j
    /\ \A k \in DOMAIN calls : calls[k].retries = 3
    /\ \A i, j \in DOMAIN calls : calls[i].item_id = calls[j].item_id => i = j
    /\ pc \in {"tar", "upload", "cleanup"} => trace[Len(trace)].repo = repos[idx].name

\* alpha then beta were both processed and uploaded, in listing order
C17_Witness ==
    /\ pc = "done"
    /\ Len(repos) = 2
    /\ Started = <<repos[1].name, repos[2].name>>
    /\ Len(calls) = 2
    /\ calls[1].retries = 3 /\ calls[2].retries = 3
    /\ DidOk("upload", repos[1].name) /\ DidOk("upload", repos[2].name)

\* a line that reports the failed removal of the mirror of repository n
Warned(n) ==
    \E k \in DOMAIN out : out[k].kind = "warning" /\ out[k].about \in {n, MirrorName(n)}

(***************************************************************************)
(* C18.  Cleanup failure is non-fatal but visible: when the removal of the *)
(* mirror directory of a repository fails after its upload has succeeded,  *)
(* the failure is logged as a warning, the repository still counts as a    *)
(* success with no error line, and the run goes on to the next repository. *)
(***************************************************************************)
C18_CleanupFailureVisible ==
    \A k \in DOMAIN repos :
        LET n == repos[k].name
        IN  DidFail("cleanup", n) =>
                /\ Warned(n)
                /\ Succeeded(n)
                /\ ~ErrorLine(n)
                /\ idx > k
                /\ (k = Len(repos)) => (pc = "done" /\ exitCode = 0)

\* the artifact of repository n
Artifact(n) == TarballName(MirrorName(n))

\* the repository the loop is working on
Current == repos[idx].name

(***************************************************************************)
(* C19.  Artifacts outlive cleanup: the cleanup step changes no artifact   *)
(* and nothing but the mirror directory of the current repository; an      *)
(* artifact changes or disappears only in the packaging step of its own    *)
(* repository; every repository whose packaging succeeded in a run has its *)
(* artifact for the rest of that run; and every step, failed or not,       *)
(* leaves the mirrors and artifacts of all other repositories as they      *)
(* were.                                                                   *)
(***************************************************************************)
C19_ArtifactsOutliveCleanup ==
    /\ [][pc = "cleanup" =>
            \A p \in Paths : (fs'[p] # fs[p]) => (p = MirrorName(Current))]_vars
    /\ [][\A n \in RepoNames :
            (fs'[Artifact(n)] # fs[Artifact(n)]) => (pc = "tar" /\ Current = n)]_vars
    /\ [](\A n \in Listed :
            DidOk("package", n) => fs[Artifact(n)].type = "file")
    /\ [][\A n \in RepoNames :
            (fs'[Artifact(n)] # fs[Artifact(n)] \/ fs'[MirrorName(n)] # fs[MirrorName(n)])
                => (pc \in {"mirror", "tar", "cleanup"} /\ Current = n)]_vars

\* the mirror of alpha was removed after its upload and its artifact is still
\* there at the end of a run in which beta failed
C19_Witness ==
    /\ pc = "done"
    /\ DidOk("cleanup", "alpha")
    /\ ~Exists(fs, "alpha.git")
    /\ fs["alpha.git.tar.gz"].type = "file"
    /\ \E k \in DOMAIN trace : trace[k].repo = "beta" /\ ~trace[k].ok

====
